---- MODULE Spec2Model ----
(***************************************************************************)
(* Model of the DeepFetch-AI backend (src/Backend/app.py): module startup, *)
(* the POST /api/query pipeline (search -> per-URL extraction ->           *)
(* aggregation -> model call) and GET /api/health.                         *)
(*                                                                         *)
(* Text is modelled as a sequence of pieces.  A piece is a substring of    *)
(* known origin: k is what it is a piece of, u the URL it belongs to, n    *)
(* its length in characters and of the length of the string it is a        *)
(* prefix of (n < of: the piece was cut by a slice).  Concatenation,       *)
(* len() and the slice text[:m] are computed on pieces, with the lengths   *)
(* and caps of the source.                                                 *)
(***************************************************************************)
EXTENDS Integers, Sequences, FiniteSets, TLC

\* ---------------------------------------------------------------- bounds
\* Number of query requests the server receives in a behaviour.
MaxQueries == 1
\* Number of query requests the server receives in a behaviour of the
\* concurrent specification.
MaxConcQueries == 2
\* Longest list of URLs a search gives in the concurrent specification.
MaxConcUrls == 1
\* Longest "organic_results" list the search provider returns.
MaxOrganic == 4

\* ------------------------------------------------------ program constants
num_results == 5
max_content_length == 10000
max_combined_length == 28000
\* len("...[Content truncated]")
ContentMarkerLen == 22
\* len("...[Combined Content truncated due to length]")
CombinedMarkerLen == 45
\* len("Source URL: ")
SourceHeaderLen == 12
\* len("\n\n") between the header and the content of a block
BlankLineLen == 2
\* len("\n\n---\n\n")
SeparatorLen == 7
\* len("No relevant content found from the search results.")
SentinelLen == 50

\* ------------------------------------------------------------ the inputs
\* Worker threads of the server; Threads is the domain of the per-request
\* variables, SeqThreads the threads the sequential specification runs.
Threads == {1, 2}
SeqThreads == {1}

\* Candidate links the provider can return, with len(url).
URLs == {"https://a.test", "https://bb.test/x"}
UrlLen(url) == IF url = "https://a.test" THEN 14 ELSE 17

\* An organic result without a "link" key.
NoLink == "<no link>"

\* os.getenv(): unset (None), set to the empty string, set to a value.
EnvUnset == [set |-> FALSE, val |-> ""]
EnvEmpty == [set |-> TRUE, val |-> ""]
EnvValue == [set |-> TRUE, val |-> "key"]
EnvValues == {EnvUnset, EnvEmpty, EnvValue}

\* Python truthiness of an os.getenv() result, and "is not None".
Truthy(v) == v.set /\ v.val # ""
IsNotNone(v) == v.set

\* Python objects that are None or an instance.
NoneObj == "None"

\* request.json: None (no JSON body), or a dict given as its set of
\* <<key, value>> items.
JsonNone == [none |-> TRUE, items |-> {}]
JsonDict(items) == [none |-> FALSE, items |-> items]
Bodies ==
  { JsonNone,
    JsonDict({}),
    JsonDict({<<"q", "weather">>}),
    JsonDict({<<"query", "">>}),
    JsonDict({<<"query", "weather">>}) }

\* `not data`, `'query' in data`, data['query']
NotData(data) == data.none \/ data.items = {}
HasKey(data, key) == \E it \in data.items : it[1] = key
GetItem(data, key) == (CHOOSE it \in data.items : it[1] = key)[2]

\* ------------------------------------------------------------------ text
Str(k, u, n) == IF n = 0 THEN <<>> ELSE <<[k |-> k, u |-> u, n |-> n, of |-> n]>>

RECURSIVE TextLen(_)
TextLen(s) == IF s = <<>> THEN 0 ELSE Head(s).n + TextLen(Tail(s))

\* s[:m]
RECURSIVE Slice(_, _)
Slice(s, m) ==
  IF s = <<>> \/ m <= 0 THEN <<>>
  ELSE IF Head(s).n <= m THEN <<Head(s)>> \o Slice(Tail(s), m - Head(s).n)
  ELSE <<[Head(s) EXCEPT !.n = m]>>

\* "".join(parts)
RECURSIVE Join(_)
Join(parts) == IF parts = <<>> THEN <<>> ELSE Head(parts) \o Join(Tail(parts))

\* -------------------------------------------------- search_and_retrieve
\* What the provider call search(params) does: raises, returns a response
\* without "organic_results", or returns a list of organic results, each a
\* link or an entry without a "link" key.
OrganicLists == UNION { [1..n -> URLs \cup {NoLink}] : n \in 0..MaxOrganic }
ProviderOutcomes ==
  { [kind |-> k, results |-> <<>>] : k \in {"raise", "no_field"} }
    \cup { [kind |-> "ok", results |-> r] : r \in OrganicLists }

\* for result in search_results["organic_results"]: append the link, stop
\* once num_results links are collected.
RECURSIVE CollectLinks(_, _)
CollectLinks(results, urls) ==
  IF results = <<>> THEN urls
  ELSE LET urls2 == IF Head(results) # NoLink THEN Append(urls, Head(results))
                    ELSE urls
       IN IF Len(urls2) >= num_results THEN urls2
          ELSE CollectLinks(Tail(results), urls2)

search_and_retrieve(key, o) ==
  IF ~Truthy(key) THEN <<>>
  ELSE IF o.kind = "raise" THEN <<>>
  ELSE IF o.kind = "no_field" THEN <<>>
  ELSE CollectLinks(o.results, <<>>)

\* ------------------------------------------------------- extract_content
\* What fetching and cleaning one page does: one of the failures, or the
\* cleaned text_content (of length clean, 0 when nothing survives the
\* cleaning) as it stands before the length cap.  The pages of the first
\* site clean to a text at the cap or one character over it; those of the
\* second to a text over the cap or to one of 7892 characters, whose block
\* brings two blocks of the first site to max_combined_length exactly.
FetchFailures ==
  {"timeout", "request_error", "non_html", "decode_failed", "parse_error"}
CleanLens(url) ==
  IF url = "https://a.test"
  THEN {0, max_content_length, max_content_length + 1}
  ELSE {0, 7892, max_content_length + 1}
FetchOutcomes(url) ==
  { [kind |-> k, clean |-> 0] : k \in FetchFailures }
    \cup { [kind |-> "ok", clean |-> n] : n \in CleanLens(url) }

ContentMarker == Str("content_marker", "", ContentMarkerLen)

extract_content_cap_at(url, f) ==
  IF f.kind # "ok" THEN <<>>
  ELSE LET text_content == Str("doc", url, f.clean)
       IN IF TextLen(text_content) >= max_content_length
          THEN Slice(text_content, max_content_length) \o ContentMarker
          ELSE text_content
extract_content(url, f) ==
  IF f.kind = "non_html" THEN <<>>
  ELSE IF f.kind = "decode_failed" THEN <<>>
  ELSE IF f.kind = "timeout" THEN <<>>
  ELSE IF f.kind = "request_error" THEN <<>>
  ELSE IF f.kind = "parse_error" THEN <<>>
  ELSE LET text_content == Str("doc", url, f.clean)
       IN IF TextLen(text_content) > max_content_length
          THEN Slice(text_content, max_content_length) \o ContentMarker
          ELSE text_content

\* ------------------------------------------------------- process_content
\* f"Source URL: {url}\n\n{content}\n\n---\n\n"
Block(url, c) ==
  Str("header", url, SourceHeaderLen + UrlLen(url))
    \o Str("blank", url, BlankLineLen)
    \o c
    \o Str("separator", url, SeparatorLen)

\* The body of the loop: a non-empty content adds its block and its URL.
\* acc is <<all_content, processed_urls>>.
loop_body_append_always(acc, url, c) ==
  IF TextLen(c) > 0
  THEN <<Append(acc[1], Block(url, c)), Append(acc[2], url)>>
  ELSE <<acc[1], Append(acc[2], url)>>
loop_body(acc, url, c) ==
  IF TextLen(c) > 0
  THEN <<Append(acc[1], Block(url, c)), Append(acc[2], url)>>
  ELSE acc

Sentinel == Str("sentinel", "", SentinelLen)
CombinedMarker == Str("combined_marker", "", CombinedMarkerLen)

\* The return value of process_content once the loop is over.
process_content_return(parts, urls) ==
  IF parts = <<>> THEN [content |-> Sentinel, urls |-> <<>>]
  ELSE LET joined == Join(parts)
       IN [content |->
             IF TextLen(joined) > max_combined_length
             THEN Slice(joined, max_combined_length) \o CombinedMarker
             ELSE joined,
           urls |-> urls]

\* ----------------------------------------------------------- the replies
MsgNotConfigured == "AI service is not properly configured or initialized."
MsgNoQuery == "No query provided"
MsgNoPages == "I couldn't find relevant web pages for your query using the search service. Please try rephrasing your query."
MsgNoExtract == "I found some web pages, but I couldn't extract useful information from them to answer your query."
MsgUnavailable == "Sorry, the AI assistant is not available right now."
MsgApology == "Sorry, I encountered an error while processing your request with the AI model. Please try again."
\* The text conversation.predict returns.
LLMText == "<model text>"
ModelOutcomes == {"raise", "text"}

\* What generate_response returns after conversation.predict: the reply of
\* the model, or the apology when the call raised.
generate_response_return(m) == IF m = "raise" THEN MsgApology ELSE LLMText

\* jsonify({"error": msg}), code
ErrorResult(code, msg) ==
  [status |-> code, keys |-> {"error"}, error |-> msg,
   response |-> "", sources |-> <<>>]
\* jsonify({"response": r, "sources": s}) with the default status 200
AnswerResult(r, s) ==
  [status |-> 200, keys |-> {"response", "sources"}, error |-> "",
   response |-> r, sources |-> s]
\* No reply sent (yet).
NoResult ==
  [status |-> 0, keys |-> {}, error |-> "", response |-> "", sources |-> <<>>]

\* The guards of handle_query before the pipeline starts.
handle_query_guard_swapped(l, c, d) ==
  IF NotData(d) \/ ~HasKey(d, "query") THEN "400"
  ELSE IF l = NoneObj \/ c = NoneObj THEN "503"
  ELSE "ok"
handle_query_guard(l, c, d) ==
  IF l = NoneObj \/ c = NoneObj THEN "503"
  ELSE IF NotData(d) \/ ~HasKey(d, "query") THEN "400"
  ELSE "ok"

\* `if not initial_urls`: the reply when the search found nothing, NoResult
\* when handle_query goes on.
after_search_no_return(urls) == NoResult
after_search(urls) ==
  IF urls = <<>> THEN AnswerResult(MsgNoPages, <<>>) ELSE NoResult

\* `if not content or not urls_with_content`: the reply when nothing was
\* extracted, NoResult when handle_query goes on.
after_process_contributing(c, with_content, urls) ==
  IF TextLen(c) = 0 \/ with_content = <<>>
  THEN AnswerResult(MsgNoExtract, with_content) ELSE NoResult
after_process(c, with_content, urls) ==
  IF TextLen(c) = 0 \/ with_content = <<>>
  THEN AnswerResult(MsgNoExtract, urls) ELSE NoResult

\* Step 4: the reply carries the initial list of URLs.
final_reply_contributing(r, with_content, urls) == AnswerResult(r, with_content)
final_reply(r, with_content, urls) == AnswerResult(r, urls)

\* ---------------------------------------------------------- health_check
health_check(l, c, skey, gkey) ==
  [status |-> IF l # NoneObj /\ c # NoneObj /\ Truthy(skey) /\ Truthy(gkey)
              THEN 200 ELSE 503,
   llm_initialized |-> l # NoneObj,
   conversation_initialized |-> c # NoneObj,
   serpapi_key_present |-> IsNotNone(skey),
   google_api_key_present |-> IsNotNone(gkey)]
NoHealth ==
  [status |-> 0, llm_initialized |-> FALSE, conversation_initialized |-> FALSE,
   serpapi_key_present |-> FALSE, google_api_key_present |-> FALSE]

\* ------------------------------------------------------------- the state
VARIABLES
  GOOGLE_API_KEY, SERPAPI_API_KEY, llm, conversation,  \* module globals
  memory,            \* ConversationBufferMemory: the turns saved so far
  arrived,           \* number of query requests received
  health,            \* the last reply of GET /api/health
  pc,                \* per thread: where its handle_query stands
  seq,               \* per thread: arrival number of its request
  data,              \* per thread: request.json of its request
  query, initial_urls, idx, content, all_content, processed_urls,
  combined_content, urls_with_content, response,
  result,            \* per thread: the reply of handle_query
  calls              \* per thread: the collaborator calls made for the request

globals == <<GOOGLE_API_KEY, SERPAPI_API_KEY, llm, conversation>>
search_locals == <<query, initial_urls>>
loop_locals == <<idx, content, all_content, processed_urls>>
gen_locals == <<combined_content, urls_with_content, response>>
vars == <<globals, memory, arrived, health, pc, seq, data, search_locals,
          loop_locals, gen_locals, result, calls>>

\* Module startup: the keys come from the environment; the LLM client is
\* constructed only with a truthy key and its constructor may raise; the
\* chain is constructed only with an LLM.
Startup(gkey, skey, ctor_ok) ==
  /\ GOOGLE_API_KEY = gkey
  /\ SERPAPI_API_KEY = skey
  /\ llm = IF Truthy(gkey) /\ ctor_ok THEN "ChatGoogleGenerativeAI" ELSE NoneObj
  /\ conversation = IF llm # NoneObj THEN "ConversationChain" ELSE NoneObj
  /\ memory = <<>>

Init ==
  /\ \E gkey \in EnvValues, skey \in EnvValues, ctor_ok \in BOOLEAN :
       Startup(gkey, skey, ctor_ok)
  /\ arrived = 0
  /\ health = NoHealth
  /\ pc = [t \in Threads |-> "idle"]
  /\ seq = [t \in Threads |-> 0]
  /\ data = [t \in Threads |-> JsonNone]
  /\ query = [t \in Threads |-> ""]
  /\ initial_urls = [t \in Threads |-> <<>>]
  /\ idx = [t \in Threads |-> 0]
  /\ content = [t \in Threads |-> <<>>]
  /\ all_content = [t \in Threads |-> <<>>]
  /\ processed_urls = [t \in Threads |-> <<>>]
  /\ combined_content = [t \in Threads |-> <<>>]
  /\ urls_with_content = [t \in Threads |-> <<>>]
  /\ response = [t \in Threads |-> ""]
  /\ result = [t \in Threads |-> NoResult]
  /\ calls = [t \in Threads |-> <<>>]

Call(op, arg, out) == [op |-> op, arg |-> arg, out |-> out]

\* POST /api/query arrives: handle_query up to the search step.
handle_query_entry(t, limit) ==
  /\ pc[t] = "idle"
  /\ arrived < limit
  /\ \E body \in Bodies :
       LET g == handle_query_guard(llm, conversation, body)
       IN /\ data' = [data EXCEPT ![t] = body]
          /\ IF g = "503"
             THEN /\ result' = [result EXCEPT ![t] = ErrorResult(503, MsgNotConfigured)]
                  /\ pc' = [pc EXCEPT ![t] = "done"]
                  /\ query' = query
             ELSE IF g = "400"
             THEN /\ result' = [result EXCEPT ![t] = ErrorResult(400, MsgNoQuery)]
                  /\ pc' = [pc EXCEPT ![t] = "done"]
                  /\ query' = query
             ELSE /\ query' = [query EXCEPT ![t] = GetItem(body, "query")]
                  /\ pc' = [pc EXCEPT ![t] = "search"]
                  /\ result' = result
  /\ arrived' = arrived + 1
  /\ seq' = [seq EXCEPT ![t] = arrived + 1]
  /\ UNCHANGED <<globals, memory, health, initial_urls, loop_locals,
                 gen_locals, calls>>

Receive(t) == handle_query_entry(t, MaxQueries)

\* Step 1: search_and_retrieve and the empty-result reply.
Search(t) ==
  /\ pc[t] = "search"
  /\ \E o \in ProviderOutcomes :
       LET urls == search_and_retrieve(SERPAPI_API_KEY, o)
       IN /\ initial_urls' = [initial_urls EXCEPT ![t] = urls]
          /\ calls' = [calls EXCEPT ![t] =
                         IF Truthy(SERPAPI_API_KEY)
                         THEN Append(@, Call("search", query[t], o.kind))
                         ELSE @]
          /\ result' = [result EXCEPT ![t] = after_search(urls)]
          /\ IF after_search(urls) # NoResult
             THEN /\ pc' = [pc EXCEPT ![t] = "done"]
                  /\ idx' = idx
             ELSE /\ pc' = [pc EXCEPT ![t] = "extract"]
                  /\ idx' = [idx EXCEPT ![t] = 1]
  /\ UNCHANGED <<globals, memory, arrived, health, seq, data, query, content,
                 all_content, processed_urls, gen_locals>>

\* Step 2, one iteration of the loop of process_content.
ExtractStep(t) ==
  /\ pc[t] = "extract"
  /\ idx[t] <= Len(initial_urls[t])
  /\ \E f \in FetchOutcomes(initial_urls[t][idx[t]]) :
       LET url == initial_urls[t][idx[t]]
           c == extract_content(url, f)
       IN /\ content' = [content EXCEPT ![t] = c]
          /\ calls' = [calls EXCEPT ![t] =
                         Append(@, Call("extract", url,
                                        IF TextLen(c) > 0 THEN "text" ELSE "empty"))]
          /\ LET acc == loop_body(<<all_content[t], processed_urls[t]>>, url, c)
             IN /\ all_content' = [all_content EXCEPT ![t] = acc[1]]
                /\ processed_urls' = [processed_urls EXCEPT ![t] = acc[2]]
  /\ idx' = [idx EXCEPT ![t] = @ + 1]
  /\ UNCHANGED <<globals, memory, arrived, health, pc, seq, data,
                 search_locals, gen_locals, result>>

\* The end of process_content and the no-content reply of handle_query.
Aggregate(t) ==
  /\ pc[t] = "extract"
  /\ idx[t] > Len(initial_urls[t])
  /\ LET ret == process_content_return(all_content[t], processed_urls[t])
     IN /\ combined_content' = [combined_content EXCEPT ![t] = ret.content]
        /\ urls_with_content' = [urls_with_content EXCEPT ![t] = ret.urls]
        /\ result' = [result EXCEPT ![t] =
                        after_process(ret.content, ret.urls, initial_urls[t])]
        /\ pc' = [pc EXCEPT ![t] =
                    IF after_process(ret.content, ret.urls, initial_urls[t]) # NoResult
                    THEN "done" ELSE "generate"]
  /\ UNCHANGED <<globals, memory, arrived, health, seq, data, search_locals,
                 loop_locals, response, calls>>

\* Step 3: generate_response up to the call of conversation.predict; without
\* a chain it returns at once and handle_query replies (step 4).
GenerateCall(t) ==
  /\ pc[t] = "generate"
  /\ IF conversation = NoneObj
     THEN /\ response' = [response EXCEPT ![t] = MsgUnavailable]
          /\ result' = [result EXCEPT ![t] =
                          final_reply(MsgUnavailable, urls_with_content[t],
                                      initial_urls[t])]
          /\ pc' = [pc EXCEPT ![t] = "done"]
          /\ calls' = calls
     ELSE /\ calls' = [calls EXCEPT ![t] = Append(@, Call("predict", query[t], "called"))]
          /\ pc' = [pc EXCEPT ![t] = "predict"]
          /\ UNCHANGED <<response, result>>
  /\ UNCHANGED <<globals, memory, arrived, health, seq, data, search_locals,
                 loop_locals, combined_content, urls_with_content>>

\* conversation.predict returns or raises; a returned reply is saved to the
\* memory as one turn with the prompt of this request.  generate_response
\* returns the reply or the apology and handle_query replies with it and
\* the initial list of URLs (step 4).
PredictReturn(t) ==
  /\ pc[t] = "predict"
  /\ \E m \in ModelOutcomes :
       LET r == generate_response_return(m)
       IN /\ response' = [response EXCEPT ![t] = r]
          /\ result' = [result EXCEPT ![t] =
                          final_reply(r, urls_with_content[t], initial_urls[t])]
          /\ memory' = IF m = "raise" THEN memory
                       ELSE Append(memory, [input |-> seq[t], output |-> LLMText])
  /\ pc' = [pc EXCEPT ![t] = "done"]
  /\ UNCHANGED <<globals, arrived, health, seq, data, search_locals,
                 loop_locals, combined_content, urls_with_content, calls>>

\* The reply is sent; the thread is free for the next request.
Complete(t) ==
  /\ pc[t] = "done"
  /\ pc' = [pc EXCEPT ![t] = "idle"]
  /\ seq' = [seq EXCEPT ![t] = 0]
  /\ data' = [data EXCEPT ![t] = JsonNone]
  /\ query' = [query EXCEPT ![t] = ""]
  /\ initial_urls' = [initial_urls EXCEPT ![t] = <<>>]
  /\ idx' = [idx EXCEPT ![t] = 0]
  /\ content' = [content EXCEPT ![t] = <<>>]
  /\ all_content' = [all_content EXCEPT ![t] = <<>>]
  /\ processed_urls' = [processed_urls EXCEPT ![t] = <<>>]
  /\ combined_content' = [combined_content EXCEPT ![t] = <<>>]
  /\ urls_with_content' = [urls_with_content EXCEPT ![t] = <<>>]
  /\ response' = [response EXCEPT ![t] = ""]
  /\ result' = [result EXCEPT ![t] = NoResult]
  /\ calls' = [calls EXCEPT ![t] = <<>>]
  /\ UNCHANGED <<globals, memory, arrived, health>>

\* GET /api/health
HealthCheck ==
  /\ health' = health_check(llm, conversation, SERPAPI_API_KEY, GOOGLE_API_KEY)
  /\ health' # health
  /\ UNCHANGED <<globals, memory, arrived, pc, seq, data, search_locals,
                 loop_locals, gen_locals, result, calls>>

\* Query requests handled one after another by one thread.
Next ==
  \/ \E t \in SeqThreads : Receive(t)
  \/ \E t \in SeqThreads : Search(t)
  \/ \E t \in SeqThreads : ExtractStep(t)
  \/ \E t \in SeqThreads : Aggregate(t)
  \/ \E t \in SeqThreads : GenerateCall(t)
  \/ \E t \in SeqThreads : PredictReturn(t)
  \/ \E t \in SeqThreads : Complete(t)
  \/ HealthCheck

Spec == Init /\ [][Next]_vars

\* The threaded server: app.run() serves each request in a thread of its
\* own, so the steps of two handle_query calls interleave.  The searches
\* of this specification give at most MaxConcUrls URLs.
ReceiveConc(t) == handle_query_entry(t, MaxConcQueries)
ConcScope == \A t \in Threads : Len(initial_urls[t]) <= MaxConcUrls
SearchConc(t) == Search(t) /\ ConcScope'

NextConc ==
  \/ \E t \in Threads : ReceiveConc(t)
  \/ \E t \in Threads : SearchConc(t)
  \/ \E t \in Threads : ExtractStep(t)
  \/ \E t \in Threads : Aggregate(t)
  \/ \E t \in Threads : GenerateCall(t)
  \/ \E t \in Threads : PredictReturn(t)
  \/ \E t \in Threads : Complete(t)
  \/ HealthCheck

SpecConc == Init /\ [][NextConc]_vars

\* ----------------------------------------------------------- properties
\* The request of thread t passed both guards of handle_query.
Accepted(t) == handle_query_guard(llm, conversation, data[t]) = "ok"
\* The calls of one kind made for the request of thread t.
CallsOf(t, op) == SelectSeq(calls[t], LAMBDA c : c.op = op)
ArgsOf(cs) == [i \in 1..Len(cs) |-> cs[i].arg]
\* process_content has returned to handle_query.
Aggregated(t) ==
  /\ Accepted(t)
  /\ initial_urls[t] # <<>>
  /\ pc[t] \in {"generate", "predict", "done"}
HasPiece(text, k) == \E i \in 1..Len(text) : text[i].k = k

\* C1: a request that passed the guards and whose search gave no URL (the
\* provider raised, answered without the results field, or gave no link)
\* is answered 200 with the fixed "couldn't find relevant web pages" message
\* and an empty sources list, and neither extract_content nor the model was
\* called for it.
C1_NoUrlsReply ==
  \A t \in Threads :
    ( /\ pc[t] = "done"
      /\ Accepted(t)
      /\ \/ initial_urls[t] = <<>>
         \/ \E i \in 1..Len(calls[t]) :
              calls[t][i].op = "search" /\ calls[t][i].out \in {"raise", "no_field"} )
    => /\ result[t] = AnswerResult(MsgNoPages, <<>>)
       /\ CallsOf(t, "extract") = <<>>
       /\ CallsOf(t, "predict") = <<>>
\* A request answered after the provider call raised.
C1_Witness ==
  \E t \in Threads :
    /\ pc[t] = "done"
    /\ Accepted(t)
    /\ CallsOf(t, "search") # <<>>
    /\ CallsOf(t, "search")[1].out = "raise"
    /\ result[t].status = 200

\* C2: when the search gave URLs and every extraction returned the empty
\* string, the reply carries the search URL list unchanged and the fixed
\* "couldn't extract useful information" message, and the model was not
\* called.
C2_NoContentReply ==
  \A t \in Threads :
    ( /\ pc[t] = "done"
      /\ Accepted(t)
      /\ initial_urls[t] # <<>>
      /\ \A i \in 1..Len(CallsOf(t, "extract")) :
           CallsOf(t, "extract")[i].out = "empty" )
    => /\ result[t] = AnswerResult(MsgNoExtract, initial_urls[t])
       /\ CallsOf(t, "predict") = <<>>
\* Two different candidates, both extractions empty.
C2_Witness ==
  \E t \in Threads :
    /\ pc[t] = "done"
    /\ Accepted(t)
    /\ Len(initial_urls[t]) >= 2
    /\ initial_urls[t][1] # initial_urls[t][2]
    /\ Len(CallsOf(t, "extract")) = Len(initial_urls[t])
    /\ processed_urls[t] = <<>>
    /\ result[t].status = 200

\* C3: a request that reached generate_response is answered 200 with the
\* full search URL list in provider order as sources, and with the model's
\* text when the model call returned (the turn is in the memory) or the
\* fixed apology when it raised.
C3_GeneratedReply ==
  \A t \in Threads :
    ( /\ pc[t] = "done"
      /\ Accepted(t)
      /\ initial_urls[t] # <<>>
      /\ processed_urls[t] # <<>> )
    => /\ result[t].status = 200
       /\ result[t].keys = {"response", "sources"}
       /\ result[t].sources = initial_urls[t]
       /\ Len(CallsOf(t, "predict")) = 1
       /\ IF \E i \in 1..Len(memory) : memory[i].input = seq[t]
          THEN result[t].response = LLMText
          ELSE result[t].response = MsgApology
\* The model call raised and some candidate did not contribute.
C3_Witness ==
  \E t \in Threads :
    /\ pc[t] = "done"
    /\ Accepted(t)
    /\ processed_urls[t] # <<>>
    /\ processed_urls[t] # initial_urls[t]
    /\ result[t].response = MsgApology
    /\ result[t].sources = initial_urls[t]

\* C4: without an LLM or a conversation chain every query request is
\* answered 503, whatever its body, and no collaborator is called.
C4_Unavailable503 ==
  \A t \in Threads :
    (pc[t] = "done" /\ (llm = NoneObj \/ conversation = NoneObj))
    => /\ result[t] = ErrorResult(503, MsgNotConfigured)
       /\ calls[t] = <<>>
\* A request without a query answered 503.
C4_Witness ==
  \E t \in Threads :
    /\ pc[t] = "done"
    /\ llm = NoneObj
    /\ ~HasKey(data[t], "query")
    /\ result[t].status = 503

\* C5: with the LLM and the chain available, a request whose query is
\* missing or empty (no body, no 'query' field, 'query' equal to "") is
\* answered 400 and no collaborator is called for it.
C5_EmptyQuery400 ==
  \A t \in Threads :
    ( /\ pc[t] = "done"
      /\ llm # NoneObj /\ conversation # NoneObj
      /\ \/ NotData(data[t])
         \/ ~HasKey(data[t], "query")
         \/ GetItem(data[t], "query") = "" )
    => /\ result[t].status = 400
       /\ calls[t] = <<>>

\* C6: when a required credential (the search provider key or the LLM key)
\* is missing at startup, every request with a non-empty query is answered
\* 503 and the health endpoint reports 503.
C6_MissingKey503 ==
  (~IsNotNone(SERPAPI_API_KEY) \/ ~IsNotNone(GOOGLE_API_KEY))
  => /\ \A t \in Threads :
          ( /\ pc[t] = "done"
            /\ HasKey(data[t], "query")
            /\ GetItem(data[t], "query") # "" ) => result[t].status = 503
     /\ health # NoHealth => health.status = 503

\* C7: the health endpoint answers 200 exactly when its four reported flags
\* are all true, and 503 otherwise.
C7_HealthStatusAgrees ==
  health # NoHealth
  => /\ health.status \in {200, 503}
     /\ health.status = 200
          <=> /\ health.llm_initialized
              /\ health.conversation_initialized
              /\ health.serpapi_key_present
              /\ health.google_api_key_present

\* C8: the text extract_content returns is at most 10,000 characters plus
\* its marker, and the combined text process_content returns is at most
\* 28,000 characters plus its marker; either marker is there only when the
\* cap was exceeded (then after exactly the first cap characters), and a
\* text at or under the cap is returned unchanged.
C8_LengthCaps ==
  \A t \in Threads :
    /\ TextLen(content[t]) <= max_content_length + ContentMarkerLen
    /\ content[t] # <<>> =>
         LET d == content[t][1]
         IN /\ d.k = "doc"
            /\ IF d.of > max_content_length
               THEN content[t] = <<[d EXCEPT !.n = max_content_length]>> \o ContentMarker
               ELSE content[t] = <<[d EXCEPT !.n = d.of]>>
    /\ (Aggregated(t) /\ all_content[t] # <<>>) =>
         LET joined == Join(all_content[t])
             c == combined_content[t]
         IN /\ TextLen(c) <= max_combined_length + CombinedMarkerLen
            /\ IF TextLen(joined) > max_combined_length
               THEN /\ c = Slice(joined, max_combined_length) \o CombinedMarker
                    /\ TextLen(c) = max_combined_length + CombinedMarkerLen
               ELSE /\ c = joined
                    /\ ~HasPiece(c, "combined_marker")
\* A combined text cut at the cap whose last document was itself cut, and
\* whose first document is exactly at the per-document cap.
C8_Witness ==
  \E t \in Threads :
    /\ Aggregated(t)
    /\ HasPiece(combined_content[t], "combined_marker")
    /\ HasPiece(content[t], "content_marker")
    /\ all_content[t][1][3].n = max_content_length
    /\ all_content[t][1][3].of = max_content_length

\* C9: the loop of process_content calls extract_content once for each
\* candidate, in candidate order, whatever the earlier extractions did; the
\* contributing URLs are the candidates whose extraction was non-empty, in
\* candidate order, and the blocks are joined in that order.
C9_LoopCoversAll ==
  \A t \in Threads :
    LET ex == CallsOf(t, "extract")
        ok == SelectSeq(ex, LAMBDA c : c.out = "text")
    IN /\ (Accepted(t) /\ pc[t] = "extract") =>
            ArgsOf(ex) = SubSeq(initial_urls[t], 1, idx[t] - 1)
       /\ Aggregated(t) =>
            /\ ArgsOf(ex) = initial_urls[t]
            /\ processed_urls[t] = ArgsOf(ok)
            /\ urls_with_content[t] = ArgsOf(ok)
            /\ Len(all_content[t]) = Len(ok)
            /\ \A i \in 1..Len(ok) :
                 /\ all_content[t][i][1].k = "header"
                 /\ all_content[t][i][1].u = ok[i].arg
                 /\ all_content[t][i][3].u = ok[i].arg
\* An empty extraction followed by a non-empty one of another candidate.
C9_Witness ==
  \E t \in Threads :
    /\ Aggregated(t)
    /\ \E i \in 1..(Len(calls[t]) - 1) :
         /\ calls[t][i].op = "extract" /\ calls[t][i].out = "empty"
         /\ calls[t][i + 1].op = "extract" /\ calls[t][i + 1].out = "text"
         /\ calls[t][i].arg # calls[t][i + 1].arg
    /\ Len(urls_with_content[t]) >= 2

\* C10: for a non-empty query, every URL in the contributing URLs returned
\* by process_content has
\* its whole "Source URL: <url>" header and at least part of its text in
\* the returned combined text.
C10_ContributorsInText ==
  \A t \in Threads :
    (Aggregated(t) /\ query[t] # "") =>
      \A i \in 1..Len(urls_with_content[t]) :
        LET u == urls_with_content[t][i]
            c == combined_content[t]
        IN /\ \E j \in 1..Len(c) : c[j].k = "header" /\ c[j].u = u /\ c[j].n = c[j].of
           /\ \E j \in 1..Len(c) : c[j].k = "doc" /\ c[j].u = u /\ c[j].n >= 1

\* C11: the turns of the memory are in the order in which their requests
\* arrived; a request that ended without a model call has no turn, and a
\* request whose model call returned has exactly one turn, made of its
\* prompt and the reply of the model.
C11_TurnsInArrivalOrder ==
  /\ \A i, j \in 1..Len(memory) : i < j => memory[i].input < memory[j].input
  /\ \A t \in Threads :
       pc[t] = "done" =>
         LET mine == SelectSeq(memory, LAMBDA turn : turn.input = seq[t])
         IN IF CallsOf(t, "predict") # <<>> /\ response[t] = LLMText
            THEN mine = <<[input |-> seq[t], output |-> LLMText]>>
            ELSE mine = <<>>

\* The parts of C11 that do not depend on the order of the turns.
C11_OneTurnPerAnsweredQuery ==
  \A t \in Threads :
    pc[t] = "done" =>
      LET mine == SelectSeq(memory, LAMBDA turn : turn.input = seq[t])
      IN IF CallsOf(t, "predict") # <<>> /\ response[t] = LLMText
         THEN mine = <<[input |-> seq[t], output |-> LLMText]>>
         ELSE mine = <<>>
\* The memory only grows, by one turn, and only when a model call returns.
C11_AppendOnly ==
  [][memory' # memory =>
       /\ Len(memory') = Len(memory) + 1
       /\ SubSeq(memory', 1, Len(memory)) = memory
       /\ \E t \in Threads : pc[t] = "predict" /\ pc'[t] = "done"]_vars

====
